---- MODULE Spec2Model ----
(***************************************************************************)
(* Track-change extraction from a .docx package (src/src/                  *)
(* extractTrackChanges.ts) and the HTTP endpoint that serves it            *)
(* (src/src/index.ts).                                                     *)
(*                                                                         *)
(* Markup is a sequence of tokens.  A token is one tag, or one text        *)
(* element with its character data (<w:t ...>chars</w:t>): none of the     *)
(* source's regular expressions can match across a piece of a token, since *)
(* [^>]* stops at the end of a tag and [^<]* at the start of the next one. *)
(* Character data and attribute values are sequences of one-character      *)
(* strings.  A position is the 0-based index of a token.                   *)
(***************************************************************************)
EXTENDS Integers, Sequences, FiniteSets, TLC

\* ------------------------------------------------------------------ bounds

\* Most items (elements, runs) in a generated document body of tracked changes.
MaxItems == 3

\* Most tokens in a generated document body of comment-range markers.
MaxAnchorItems == 4

\* Most comment definitions in a generated comments part.
MaxComments == 1

\* ------------------------------------------------------------------ markup

AttrNames == {"author", "date", "id"}

ChangeTags == {"ins", "del", "moveFrom", "moveTo"}

Digits == {"0", "1", "2", "3", "4", "5", "6", "7", "8", "9"}

\* k: "open" <w:tag ...>, "empty" <w:tag .../>, "close" </w:tag>,
\*    "text" <w:tag ...>chars</w:tag>.
\* sp: white space follows the tag name (a tag that carries attributes has it).
\* attrs: the w:author, w:date, w:id attributes the tag carries.
Tok(k, tag, sp, attrs, text) ==
    [k |-> k, tag |-> tag, sp |-> sp, attrs |-> attrs, text |-> text]

NoAttrs == [n \in {} |-> <<>>]

OpenTag(tag, sp, attrs) == Tok("open", tag, sp, attrs, <<>>)

EmptyTag(tag, sp, attrs) == Tok("empty", tag, sp, attrs, <<>>)

CloseTag(tag) == Tok("close", tag, FALSE, NoAttrs, <<>>)

TextElem(tag, text) == Tok("text", tag, FALSE, NoAttrs, text)

\* ------------------------------------------------- extractTrackChanges.ts

\* The g-flag match of /<w:TAG[^>]*>([^<]*)<\/w:TAG>/ joined: the character
\* data of every text element named TAG, in order.
RECURSIVE JoinText(_, _)
JoinText(element, tag) ==
    IF element = <<>> THEN <<>>
    ELSE LET tok == Head(element)
         IN  (IF tok.k = "text" /\ tok.tag = tag THEN tok.text ELSE <<>>)
             \o JoinText(Tail(element), tag)

extractTextFromElement(element) == JoinText(element, "t")

\* attrs.match(/w:NAME="([^"]*)"/): <<value>>, or <<>> for null.
AttrMatch(attrs, name) ==
    IF name \in DOMAIN attrs THEN <<attrs[name]>> ELSE <<>>

\* Position (1-based) of the first </w:tag> after token i, or 0.
FirstClose(xml, tag, i) ==
    LET js == {j \in (i + 1)..Len(xml) : xml[j].k = "close" /\ xml[j].tag = tag}
    IN  IF js = {} THEN 0 ELSE CHOOSE j \in js : \A l \in js : j <= l

\* <w:tag\s+([^>]*)> : an opening tag with white space after its name.  [^>]*
\* also takes the "/" of a self-closing tag, so the first alternative starts
\* at either form.
StartsPaired(tok, tag) ==
    tok.tag = tag /\ tok.sp /\ tok.k \in {"open", "empty"}

\* <w:tag\s+([^>]*)\/> : the second alternative.
StartsEmpty(tok, tag) ==
    tok.tag = tag /\ tok.sp /\ tok.k = "empty"

\* One regex.exec() of
\*   /<w:tag\s+([^>]*)>([\s\S]*?)<\/w:tag>|<w:tag\s+([^>]*)\/>/g
\* from lastIndex (1-based token): <<[attrs, content, lastIndex]>> of the
\* leftmost match, the first alternative tried first, or <<>> for null.
ExecChange(xml, tag, lastIndex) ==
    LET starts == {i \in lastIndex..Len(xml) :
                     \/ StartsPaired(xml[i], tag) /\ FirstClose(xml, tag, i) # 0
                     \/ StartsEmpty(xml[i], tag)}
    IN  IF starts = {} THEN <<>>
        ELSE LET i == CHOOSE s \in starts : \A l \in starts : s <= l
                 j == FirstClose(xml, tag, i)
             IN  IF StartsPaired(xml[i], tag) /\ j # 0
                 THEN <<[attrs |-> xml[i].attrs,
                         content |-> SubSeq(xml, i + 1, j - 1),
                         lastIndex |-> j + 1]>>
                 ELSE <<[attrs |-> xml[i].attrs,
                         content |-> <<>>,
                         lastIndex |-> i + 1]>>

\* The object pushed for a match: id is <<>> for undefined.
TrackChange(type, attrs, text) ==
    LET authorMatch == AttrMatch(attrs, "author")
        dateMatch == AttrMatch(attrs, "date")
        idMatch == AttrMatch(attrs, "id")
    IN  [type |-> type,
         author |-> IF authorMatch # <<>> THEN authorMatch[1]
                    ELSE <<"U", "n", "k", "n", "o", "w", "n">>,
         date |-> IF dateMatch # <<>> THEN dateMatch[1] ELSE <<>>,
         text |-> text,
         id |-> idMatch]

\* The while loop of a change scanner: exec until null, push when text is
\* not empty.
RECURSIVE ScanChanges(_, _, _, _, _)
ScanChanges(xml, tag, textTag, type, lastIndex) ==
    LET match == ExecChange(xml, tag, lastIndex)
    IN  IF match = <<>> THEN <<>>
        ELSE LET text == JoinText(match[1].content, textTag)
                 rest == ScanChanges(xml, tag, textTag, type, match[1].lastIndex)
             IN  IF text # <<>>
                 THEN <<TrackChange(type, match[1].attrs, text)>> \o rest
                 ELSE rest

parseInsertions(documentXml) ==
    ScanChanges(documentXml, "ins", "t", "insertion", 1)

parseDeletions(documentXml) ==
    ScanChanges(documentXml, "del", "delText", "deletion", 1)

parseMoves(documentXml) ==
    [from |-> ScanChanges(documentXml, "moveFrom", "t", "moveFrom", 1),
     to |-> ScanChanges(documentXml, "moveTo", "t", "moveTo", 1)]

\* The while loop of parseComments: the paired form only, every match pushed.
\* commentedText is <<>> while the object has no such key.
RECURSIVE ScanComments(_, _)
ScanComments(xml, lastIndex) ==
    LET starts == {i \in lastIndex..Len(xml) :
                     StartsPaired(xml[i], "comment")
                     /\ FirstClose(xml, "comment", i) # 0}
    IN  IF starts = {} THEN <<>>
        ELSE LET i == CHOOSE s \in starts : \A l \in starts : s <= l
                 j == FirstClose(xml, "comment", i)
                 attrs == xml[i].attrs
                 content == SubSeq(xml, i + 1, j - 1)
                 idMatch == AttrMatch(attrs, "id")
                 authorMatch == AttrMatch(attrs, "author")
                 dateMatch == AttrMatch(attrs, "date")
             IN  <<[id |-> IF idMatch # <<>> THEN idMatch[1] ELSE <<>>,
                    author |-> IF authorMatch # <<>> THEN authorMatch[1]
                               ELSE <<"U", "n", "k", "n", "o", "w", "n">>,
                    date |-> IF dateMatch # <<>> THEN dateMatch[1] ELSE <<>>,
                    text |-> extractTextFromElement(content),
                    commentedText |-> <<>>]>>
                 \o ScanComments(xml, j + 1)

\* commentsXml is <<>> for null, <<xml>> for the text of word/comments.xml;
\* !commentsXml also holds of the empty text.
parseComments(commentsXml) ==
    IF commentsXml = <<>> \/ commentsXml[1] = <<>> THEN <<>>
    ELSE ScanComments(commentsXml[1], 1)

\* /<w:TAG[^>]*w:id="(\d+)"[^>]*\/>/ : a self-closing TAG whose w:id is one or
\* more digits.
IsDigits(value) ==
    value # <<>> /\ \A i \in 1..Len(value) : value[i] \in Digits

MatchesRange(tok, tag) ==
    /\ tok.k = "empty"
    /\ tok.tag = tag
    /\ "id" \in DOMAIN tok.attrs
    /\ IsDigits(tok.attrs["id"])

\* Map.set(key, value)
MapSet(map, key, value) ==
    [x \in DOMAIN map \cup {key} |-> IF x = key THEN value ELSE map[x]]

\* Mutant: a range-start of an id that has a range already is skipped.
RECURSIVE RangeStartsKeepFirst(_, _, _)
RangeStartsKeepFirst(xml, i, commentRanges) ==
    IF i > Len(xml) THEN commentRanges
    ELSE RangeStartsKeepFirst(xml, i + 1,
            IF /\ MatchesRange(xml[i], "commentRangeStart")
               /\ xml[i].attrs["id"] \notin DOMAIN commentRanges
            THEN MapSet(commentRanges, xml[i].attrs["id"],
                        [start |-> i - 1, end |-> -1])
            ELSE commentRanges)

\* The loop over startRegex, from token i on: every match sets its id's range
\* to {start: match.index, end: -1}.
RECURSIVE RangeStarts(_, _, _)
RangeStarts(xml, i, commentRanges) ==
    IF i > Len(xml) THEN commentRanges
    ELSE RangeStarts(xml, i + 1,
            IF MatchesRange(xml[i], "commentRangeStart")
            THEN MapSet(commentRanges, xml[i].attrs["id"],
                        [start |-> i - 1, end |-> -1])
            ELSE commentRanges)

\* The loop over endRegex, from token i on: every match whose id has a range
\* sets that range's end to match.index.
RECURSIVE RangeEnds(_, _, _)
RangeEnds(xml, i, commentRanges) ==
    IF i > Len(xml) THEN commentRanges
    ELSE RangeEnds(xml, i + 1,
            IF /\ MatchesRange(xml[i], "commentRangeEnd")
               /\ xml[i].attrs["id"] \in DOMAIN commentRanges
            THEN MapSet(commentRanges, xml[i].attrs["id"],
                        [start |-> commentRanges[xml[i].attrs["id"]].start,
                         end |-> i - 1])
            ELSE commentRanges)

\* Mutant: the end is only tested for having been found.
RangeUsableAnyOrder(range) ==
    range.start >= 0 /\ range.end >= 0

\* The test of the comments.map callback on the looked-up range.
RangeUsable(range) ==
    range.start >= 0 /\ range.end > range.start

\* documentXml.substring(start, end): the tokens at positions start..end-1.
Substring(xml, start, end) == SubSeq(xml, start + 1, end)

findCommentedText(documentXml, comments) ==
    LET commentRanges ==
            RangeEnds(documentXml, 1, RangeStarts(documentXml, 1, NoAttrs))
        Enrich(comment) ==
            IF /\ comment.id \in DOMAIN commentRanges
               /\ RangeUsable(commentRanges[comment.id])
            THEN LET range == commentRanges[comment.id]
                     rangeContent == Substring(documentXml, range.start, range.end)
                 IN  [comment EXCEPT
                        !.commentedText = <<extractTextFromElement(rangeContent)>>]
            ELSE comment
    IN  [n \in 1..Len(comments) |-> Enrich(comments[n])]

\* Lines 281-294: the four change scanners, the comment scanner, the anchor
\* resolver, and the returned object.
ParseAll(docXml, comXml) ==
    [insertions |-> parseInsertions(docXml),
     deletions |-> parseDeletions(docXml),
     moves |-> parseMoves(docXml),
     comments |-> findCommentedText(docXml, parseComments(comXml))]

\* --------------------------------------------------------------- packages

DocumentPath == "word/document.xml"

CommentsPath == "word/comments.xml"

\* A buffer: a ZIP archive JSZip can load (valid) with its entries, or bytes
\* JSZip.loadAsync rejects.
Package(files) == [valid |-> TRUE, files |-> files]

CorruptBuffer == [valid |-> FALSE, files |-> NoAttrs]

\* zip.file(path): <<text>>, or <<>> for null.
ZipFile(zip, path) ==
    IF path \in DOMAIN zip.files THEN <<zip.files[path]>> ELSE <<>>

\* The message of the Error thrown at line 272.
MissingDocumentError == "Invalid .docx file: missing word/document.xml"

\* The message of the Error JSZip.loadAsync rejects with.
ZipError == "JSZip: not a zip file"

\* ------------------------------------------------------------------ state

\* Extraction calls; a request of the server runs the call of its own number.
Calls == {1, 2}

VARIABLES
    pc,           \* per call: "idle", or the await it is suspended at, "done", "failed"
    buf,          \* per call: docxBuffer
    documentXml,  \* per call: the local documentXml
    commentsXml,  \* per call: the local commentsXml (<<>> for null)
    result,       \* per call: <<>> or <<the TrackChangesResult returned>>
    error,        \* per call: "" or the message of the Error thrown
    scanned,      \* per call: whether lines 281-287 (the scanners) have run
    API_KEY,      \* process.env.API_KEY: <<>> when unset
    req,          \* per request: headers, query, the uploaded file
    hpc,          \* per request: the middleware it is at
    response      \* per request: <<>> or <<the response sent>>

vars == <<pc, buf, documentXml, commentsXml, result, error, scanned,
          API_KEY, req, hpc, response>>

coreVars == <<pc, buf, documentXml, commentsXml, result, error, scanned>>

httpVars == <<API_KEY, req, hpc, response>>

\* ----------------------------------------------------- extractTrackChanges

\* Mutant: documentXml kept in one module-level variable that every call
\* writes and reads.
SharedDocumentXml(c) == documentXml[1]

\* The local documentXml of call c as lines 281-287 read it.
LocalDocumentXml(c) == documentXml[c]

\* Mutant: no test of documentFile.
DocumentNeverMissing(zip) == FALSE

\* if (!documentFile)
DocumentMissing(zip) == ZipFile(zip, DocumentPath) = <<>>

\* The text documentFile.async("text") resolves to.
DocumentText(zip) ==
    IF DocumentPath \in DOMAIN zip.files THEN zip.files[DocumentPath] ELSE <<>>

\* Lines 281-294 run for call c with commentsXml = comXml, and the return.
Finish(c, docXml, comXml) ==
    /\ commentsXml' = [commentsXml EXCEPT ![c] = comXml]
    /\ result' = [result EXCEPT ![c] = <<ParseAll(docXml, comXml)>>]
    /\ scanned' = [scanned EXCEPT ![c] = TRUE]
    /\ pc' = [pc EXCEPT ![c] = "done"]

\* await JSZip.loadAsync(docxBuffer) settles; on success lines 270-274 run up
\* to the next await.
LoadZip(c) ==
    /\ pc[c] = "loadAsync"
    /\ IF ~buf[c].valid
       THEN /\ pc' = [pc EXCEPT ![c] = "failed"]
            /\ error' = [error EXCEPT ![c] = ZipError]
       ELSE IF DocumentMissing(buf[c])
       THEN /\ pc' = [pc EXCEPT ![c] = "failed"]
            /\ error' = [error EXCEPT ![c] = MissingDocumentError]
       ELSE /\ pc' = [pc EXCEPT ![c] = "documentText"]
            /\ error' = error
    /\ UNCHANGED <<buf, documentXml, commentsXml, result, scanned, httpVars>>

\* Mutant: commentsFile.async("text") is called without the test of
\* commentsFile, a TypeError when the entry is missing.
ReadDocumentCommentsRequired(c) ==
    /\ pc[c] = "documentText"
    /\ documentXml' = [documentXml EXCEPT ![c] = DocumentText(buf[c])]
    /\ IF ZipFile(buf[c], CommentsPath) = <<>>
       THEN /\ pc' = [pc EXCEPT ![c] = "failed"]
            /\ error' = [error EXCEPT ![c] = "TypeError"]
       ELSE /\ pc' = [pc EXCEPT ![c] = "commentsText"]
            /\ error' = error
    /\ UNCHANGED <<buf, commentsXml, result, scanned, httpVars>>

\* await documentFile.async("text") resolves; lines 277-278 run; without a
\* comments entry there is no further await and lines 281-294 follow at once.
ReadDocument(c) ==
    /\ pc[c] = "documentText"
    /\ documentXml' = [documentXml EXCEPT ![c] = DocumentText(buf[c])]
    /\ IF ZipFile(buf[c], CommentsPath) = <<>>
       THEN Finish(c, DocumentText(buf[c]), <<>>)
       ELSE /\ pc' = [pc EXCEPT ![c] = "commentsText"]
            /\ UNCHANGED <<commentsXml, result, scanned>>
    /\ UNCHANGED <<buf, error, httpVars>>

\* await commentsFile.async("text") resolves; lines 281-294 follow.
ReadComments(c) ==
    /\ pc[c] = "commentsText"
    /\ Finish(c, LocalDocumentXml(c), ZipFile(buf[c], CommentsPath))
    /\ UNCHANGED <<buf, documentXml, error, httpVars>>

Next ==
    \E c \in Calls : LoadZip(c) \/ ReadDocument(c) \/ ReadComments(c)

\* ----------------------------------------------------------------- index.ts

DocxMime ==
    "application/vnd.openxmlformats-officedocument.wordprocessingml.document"

\* limits.fileSize
FileSizeLimit == 50 * 1024 * 1024

\* String.prototype.endsWith
EndsWith(name, suffix) ==
    /\ Len(name) >= Len(suffix)
    /\ SubSeq(name, Len(name) - Len(suffix) + 1, Len(name)) = suffix

\* The fileFilter callback: whether the file is accepted.
FileFilter(file) ==
    \/ file.mimetype = DocxMime
    \/ EndsWith(file.originalname, <<".", "d", "o", "c", "x">>)

\* The status the error-handling middleware answers an error with.
ErrorStatus(err) ==
    IF err.multer
    THEN 400
    ELSE 500

\* req.headers["x-api-key"] || req.query.api_key: <<>> when neither is set.
ProvidedKey(r) ==
    IF req[r].header # <<>> /\ req[r].header[1] # ""
    THEN req[r].header
    ELSE req[r].query

Respond(r, resp) ==
    /\ response' = [response EXCEPT ![r] = <<resp>>]
    /\ hpc' = [hpc EXCEPT ![r] = "responded"]

\* authenticateApiKey
Authenticate(r) ==
    /\ hpc[r] = "auth"
    /\ IF API_KEY = <<>> \/ API_KEY[1] = ""
       THEN /\ hpc' = [hpc EXCEPT ![r] = "upload"]
            /\ response' = response
       ELSE IF \/ ProvidedKey(r) = <<>>
               \/ ProvidedKey(r)[1] = ""
               \/ ProvidedKey(r) # API_KEY
       THEN Respond(r, [status |-> 401,
                        error |-> "Unauthorized. Invalid or missing API key."])
       ELSE /\ hpc' = [hpc EXCEPT ![r] = "upload"]
            /\ response' = response
    /\ UNCHANGED <<API_KEY, req, coreVars>>

\* upload.single("file"): without a file part the handler runs with req.file
\* undefined; a file the filter refuses, or one over the size limit, goes to
\* the error-handling middleware: the filter's Error as it is, the limit as a
\* MulterError.
Upload(r) ==
    /\ hpc[r] = "upload"
    /\ IF req[r].file = <<>>
       THEN /\ hpc' = [hpc EXCEPT ![r] = "handler"]
            /\ response' = response
       ELSE IF ~FileFilter(req[r].file[1])
       THEN Respond(r, [status |-> ErrorStatus([multer |-> FALSE]),
                        error |-> "Only .docx files are accepted"])
       ELSE IF req[r].file[1].size > FileSizeLimit
       THEN Respond(r, [status |-> ErrorStatus([multer |-> TRUE]),
                        error |-> "File too large. Maximum size is 50MB."])
       ELSE /\ hpc' = [hpc EXCEPT ![r] = "handler"]
            /\ response' = response
    /\ UNCHANGED <<API_KEY, req, coreVars>>

\* The route handler up to its await: 400 without a file, else the call
\* extractTrackChanges(req.file.buffer), which runs to its first await.
Handler(r) ==
    /\ hpc[r] = "handler"
    /\ IF req[r].file = <<>>
       THEN /\ Respond(r, [status |-> 400,
                           error |-> "No file uploaded. Please upload a .docx file."])
            /\ UNCHANGED <<pc, buf>>
       ELSE /\ hpc' = [hpc EXCEPT ![r] = "extracting"]
            /\ buf' = [buf EXCEPT ![r] = req[r].file[1].buffer]
            /\ pc' = [pc EXCEPT ![r] = "loadAsync"]
            /\ response' = response
    /\ UNCHANGED <<API_KEY, req, documentXml, commentsXml, result, error, scanned>>

\* The handler after its await: the summary and the result, or the catch.
HandlerResume(r) ==
    /\ hpc[r] = "extracting"
    /\ pc[r] \in {"done", "failed"}
    /\ IF pc[r] = "done"
       THEN Respond(r,
              [status |-> 200,
               summary |->
                 [totalInsertions |-> Len(result[r][1].insertions),
                  totalDeletions |-> Len(result[r][1].deletions),
                  totalMoves |-> Len(result[r][1].moves.from)
                                 + Len(result[r][1].moves.to),
                  totalComments |-> Len(result[r][1].comments)],
               changes |-> result[r][1]])
       ELSE Respond(r, [status |-> 500, error |-> "Failed to process file",
                        message |-> error[r]])
    /\ UNCHANGED <<API_KEY, req, coreVars>>

NextServer ==
    \E r \in Calls :
        \/ Authenticate(r)
        \/ Upload(r)
        \/ Handler(r)
        \/ HandlerResume(r)
        \/ LoadZip(r)
        \/ ReadDocument(r)
        \/ ReadComments(r)

\* -------------------------------------------------------- generated input

SeqsUpTo(S, n) == UNION {[1..k -> S] : k \in 0..n}

RECURSIVE Flatten(_)
Flatten(seqs) ==
    IF seqs = <<>> THEN <<>> ELSE Head(seqs) \o Flatten(Tail(seqs))

\* The attributes of the i-th item of a document: values that tell the items
\* apart (w:author="Ai", w:date="di", w:id="i").
AttrValue(name, i) ==
    CASE name = "author" -> <<"A", ToString(i)>>
      [] name = "date" -> <<"d", ToString(i)>>
      [] name = "id" -> <<ToString(i)>>

AttrsOf(present, i) == [n \in present |-> AttrValue(n, i)]

\* The text element a scanner reads for a tag, and the one it does not.
OwnText(tag) == IF tag = "del" THEN "delText" ELSE "t"

OtherText(tag) == IF tag = "del" THEN "t" ELSE "delText"

\* Character data: "x", "y" occur in <w:t> only, "q", "r" in <w:delText> only.
Chars(textTag, n) ==
    IF textTag = "t" THEN <<<<"x">>, <<"y">>>>[n] ELSE <<<<"q">>, <<"r">>>>[n]

\* <w:tag> with no white space and no attribute, <w:tag >, and tags carrying
\* some or all of the three attributes.
AttrForms ==
    {[sp |-> FALSE, present |-> {}],
     [sp |-> TRUE, present |-> {}],
     [sp |-> TRUE, present |-> {"author"}],
     [sp |-> TRUE, present |-> {"date", "id"}],
     [sp |-> TRUE, present |-> AttrNames]}

Bodies(tag) ==
    {<<>>,
     <<TextElem(OwnText(tag), <<>>)>>,
     <<TextElem(OtherText(tag), Chars(OtherText(tag), 1))>>,
     <<TextElem(OwnText(tag), Chars(OwnText(tag), 1)),
       TextElem(OtherText(tag), Chars(OtherText(tag), 1)),
       TextElem(OwnText(tag), Chars(OwnText(tag), 2))>>}

\* The shapes of an item: a paired element, a self-closing element, a run of
\* ordinary text outside any tracked change.
ItemShapes ==
    {[form |-> "paired", tag |-> tag, sp |-> f.sp, present |-> f.present,
      body |-> <<TextElem(OwnText(tag), Chars(OwnText(tag), 1))>>] :
        tag \in ChangeTags, f \in AttrForms}
    \cup {[form |-> "paired", tag |-> tag, sp |-> TRUE, present |-> AttrNames,
           body |-> b] : <<tag, b>> \in UNION {{t} \X Bodies(t) : t \in ChangeTags}}
    \cup {[form |-> "empty", tag |-> tag, sp |-> TRUE, present |-> AttrNames,
           body |-> <<>>] : tag \in ChangeTags}
    \cup {[form |-> "run", tag |-> "t", sp |-> FALSE, present |-> {},
           body |-> <<TextElem("t", Chars("t", 2))>>]}

ItemTokens(shape, i) ==
    CASE shape.form = "paired" ->
            <<OpenTag(shape.tag, shape.sp, AttrsOf(shape.present, i))>>
            \o shape.body \o <<CloseTag(shape.tag)>>
      [] shape.form = "empty" ->
            <<EmptyTag(shape.tag, shape.sp, AttrsOf(shape.present, i))>>
      [] shape.form = "run" -> shape.body

DocOf(shapes) ==
    Flatten([i \in 1..Len(shapes) |-> ItemTokens(shapes[i], i)])

\* The shapes of the longer bodies: for <w:ins> and <w:del> the paired element
\* with text whose opening tag is <w:tag> or carries all three attributes, the
\* paired element without content and the self-closing element; and the
\* ordinary run.
SeqShapes ==
    {sh \in ItemShapes :
        \/ sh.form = "run"
        \/ /\ sh.tag \in {"ins", "del"}
           /\ \/ sh.form = "empty"
              \/ sh.body = <<>>
              \/ /\ sh.body = <<TextElem(OwnText(sh.tag), Chars(OwnText(sh.tag), 1))>>
                 /\ (sh.sp => sh.present = AttrNames)}

\* The shapes of the bodies of two elements: for every tag the paired element
\* with text and the self-closing element, both with all three attributes.
PairShapes ==
    {sh \in ItemShapes :
        /\ sh.form # "run"
        /\ sh.sp
        /\ sh.present = AttrNames
        /\ \/ sh.form = "empty"
           \/ sh.body = <<TextElem(OwnText(sh.tag), Chars(OwnText(sh.tag), 1))>>}

\* Bodies of tracked changes: every shape alone, every two of the pair
\* shapes, and the sequences of the shapes of the longer bodies.
ChangeDocs ==
    {DocOf(<<sh>>) : sh \in ItemShapes}
    \cup {DocOf(<<a, b>>) : a \in PairShapes, b \in PairShapes}
    \cup {DocOf(shapes) : shapes \in SeqsUpTo(SeqShapes, MaxItems)}

\* Comment definitions: w:id "1", "x" or absent, with or without body text.
CommentIds ==
    {[present |-> AttrNames, id |-> <<"1">>],
     [present |-> AttrNames, id |-> <<"x">>],
     [present |-> {}, id |-> <<>>]}

CommentShapes ==
    {[present |-> a.present, id |-> a.id, body |-> b] :
        a \in CommentIds, b \in {<<>>, <<TextElem("t", <<"c">>)>>}}

CommentTokens(shape, i) ==
    <<OpenTag("comment", TRUE,
              [n \in shape.present |->
                 IF n = "id" THEN shape.id ELSE AttrValue(n, i)])>>
    \o shape.body \o <<CloseTag("comment")>>

CommentsOf(shapes) ==
    Flatten([i \in 1..Len(shapes) |-> CommentTokens(shapes[i], i)])

CommentParts == {CommentsOf(shapes) : shapes \in SeqsUpTo(CommentShapes, MaxComments)}

\* The comments parts whose comments all have body text.
AnchorCommentParts ==
    {CommentsOf(shapes) :
        shapes \in SeqsUpTo({sh \in CommentShapes : sh.body # <<>>}, MaxComments)}

\* Tokens of a document body of comment ranges: markers of id "1" and of the
\* non-numeric id "x", and a run of text.
AnchorTokens ==
    {EmptyTag(tag, TRUE, [n \in {"id"} |-> id]) :
        tag \in {"commentRangeStart", "commentRangeEnd"},
        id \in {<<"1">>, <<"x">>}}
    \cup {TextElem("t", <<"x">>)}

AnchorDocs == SeqsUpTo(AnchorTokens, MaxAnchorItems)

DocOnly(doc) == Package([n \in {DocumentPath} |-> doc])

DocAndComments(doc, comments) ==
    Package([n \in {DocumentPath, CommentsPath} |->
               IF n = DocumentPath THEN doc ELSE comments])

CommentsOnly(comments) == Package([n \in {CommentsPath} |-> comments])

\* Buffers of tracked changes: every generated body without a comments part,
\* the bodies of at most one item with every comments part, packages without
\* word/document.xml, and bytes that are no archive.
ChangeBuffers ==
    {DocOnly(doc) : doc \in ChangeDocs}
    \cup {DocAndComments(DocOf(shapes), comments) :
            shapes \in SeqsUpTo(SeqShapes, 1), comments \in CommentParts}
    \cup {CommentsOnly(comments) : comments \in CommentParts}
    \cup {Package(NoAttrs), CorruptBuffer}

\* Buffers of comment ranges.
AnchorBuffers ==
    {DocOnly(doc) : doc \in AnchorDocs}
    \cup {DocAndComments(doc, comments) :
            doc \in AnchorDocs, comments \in AnchorCommentParts}
    \cup {CommentsOnly(comments) : comments \in AnchorCommentParts}
    \cup {Package(NoAttrs), CorruptBuffer}

NoRequest == [header |-> <<>>, query |-> <<>>, file |-> <<>>]

\* A direct call extractTrackChanges(buffer), suspended at its first await;
\* the server is not involved.
InitCall(buffers) ==
    /\ buf \in {[c \in Calls |-> IF c = 1 THEN b ELSE CorruptBuffer] : b \in buffers}
    /\ pc = [c \in Calls |-> IF c = 1 THEN "loadAsync" ELSE "idle"]
    /\ documentXml = [c \in Calls |-> <<>>]
    /\ commentsXml = [c \in Calls |-> <<>>]
    /\ result = [c \in Calls |-> <<>>]
    /\ error = [c \in Calls |-> ""]
    /\ scanned = [c \in Calls |-> FALSE]
    /\ API_KEY = <<>>
    /\ req = [c \in Calls |-> NoRequest]
    /\ hpc = [c \in Calls |-> "idle"]
    /\ response = [c \in Calls |-> <<>>]

Init == InitCall(ChangeBuffers)

Spec == Init /\ [][Next]_vars

InitAnchors == InitCall(AnchorBuffers)

SpecAnchors == InitAnchors /\ [][Next]_vars

\* Requests of the server.  The buffer is varied only for a file that reaches
\* the handler.
ServerDoc ==
    <<EmptyTag("commentRangeStart", TRUE, [n \in {"id"} |-> <<"1">>]),
      OpenTag("ins", TRUE, AttrsOf(AttrNames, 1)),
      TextElem("t", <<"x">>),
      CloseTag("ins"),
      EmptyTag("commentRangeEnd", TRUE, [n \in {"id"} |-> <<"1">>])>>

ServerComments ==
    <<OpenTag("comment", TRUE, AttrsOf(AttrNames, 1)),
      TextElem("t", <<"c">>),
      CloseTag("comment")>>

ServerBuffers ==
    {CorruptBuffer, Package(NoAttrs), DocOnly(ServerDoc),
     DocAndComments(ServerDoc, ServerComments)}

DocxName == <<"a", ".", "d", "o", "c", "x">>

TxtName == <<"a", ".", "t", "x", "t">>

File(mimetype, originalname, size, buffer) ==
    [mimetype |-> mimetype, originalname |-> originalname, size |-> size,
     buffer |-> buffer]

ServerFiles ==
    {<<>>,
     <<File("text/plain", TxtName, 1, DocOnly(ServerDoc))>>,
     <<File("text/plain", TxtName, FileSizeLimit + 1, DocOnly(ServerDoc))>>,
     <<File(DocxMime, TxtName, FileSizeLimit + 1, DocOnly(ServerDoc))>>,
     <<File(DocxMime, TxtName, FileSizeLimit, DocOnly(ServerDoc))>>,
     <<File("text/plain", DocxName, 1, DocOnly(ServerDoc))>>}
    \cup {<<File(DocxMime, DocxName, 1, b)>> : b \in ServerBuffers}

ServerKeys ==
    {[header |-> <<>>, query |-> <<>>],
     [header |-> <<"secret">>, query |-> <<>>],
     [header |-> <<>>, query |-> <<"secret">>],
     [header |-> <<"wrong">>, query |-> <<"secret">>],
     [header |-> <<"wrong">>, query |-> <<>>]}

ServerRequests ==
    {[header |-> k.header, query |-> k.query, file |-> f] :
        k \in ServerKeys, f \in ServerFiles}

\* The server with one request per call received and no middleware run yet.
InitServer ==
    /\ API_KEY \in {<<>>, <<"secret">>}
    /\ req \in [Calls -> ServerRequests]
    /\ hpc = [c \in Calls |-> "auth"]
    /\ response = [c \in Calls |-> <<>>]
    /\ buf = [c \in Calls |-> CorruptBuffer]
    /\ pc = [c \in Calls |-> "idle"]
    /\ documentXml = [c \in Calls |-> <<>>]
    /\ commentsXml = [c \in Calls |-> <<>>]
    /\ result = [c \in Calls |-> <<>>]
    /\ error = [c \in Calls |-> ""]
    /\ scanned = [c \in Calls |-> FALSE]

SpecServer == InitServer /\ [][NextServer]_vars

\* ------------------------------------------------------------- properties

\* A structural reading of a body, to state what a scanner should return:
\* the elements of a tag are its opening tags, each closed by the next closing
\* tag of that name (the generated bodies nest no element in one of its tag).
Unknown == <<"U", "n", "k", "n", "o", "w", "n">>

ClosingOf(xml, tag, i) ==
    LET js == {j \in (i + 1)..Len(xml) : xml[j].k = "close" /\ xml[j].tag = tag}
    IN  IF js = {} THEN 0 ELSE CHOOSE j \in js : \A l \in js : j <= l

\* The character data of the text elements named textTag at the 1-based
\* positions strictly between i and j.
RECURSIVE TextBetween(_, _, _, _)
TextBetween(xml, textTag, i, j) ==
    IF i + 1 >= j THEN <<>>
    ELSE (IF xml[i + 1].k = "text" /\ xml[i + 1].tag = textTag
          THEN xml[i + 1].text ELSE <<>>)
         \o TextBetween(xml, textTag, i + 1, j)

ElementAt(xml, tag, i) ==
    xml[i].k = "open" /\ xml[i].tag = tag /\ ClosingOf(xml, tag, i) # 0

ElementText(xml, tag, i) ==
    TextBetween(xml, OwnText(tag), i, ClosingOf(xml, tag, i))

EntryOf(xml, tag, type, i) ==
    LET a == xml[i].attrs
    IN  [type |-> type,
         author |-> IF "author" \in DOMAIN a THEN a["author"] ELSE Unknown,
         date |-> IF "date" \in DOMAIN a THEN a["date"] ELSE <<>>,
         text |-> ElementText(xml, tag, i),
         id |-> IF "id" \in DOMAIN a THEN <<a["id"]>> ELSE <<>>]

\* The entries of the paired elements of a tag that hold text, left to right.
RECURSIVE ElementEntries(_, _, _, _)
ElementEntries(xml, tag, type, i) ==
    IF i > Len(xml) THEN <<>>
    ELSE IF ElementAt(xml, tag, i)
    THEN (IF ElementText(xml, tag, i) # <<>>
          THEN <<EntryOf(xml, tag, type, i)>> ELSE <<>>)
         \o ElementEntries(xml, tag, type, ClosingOf(xml, tag, i) + 1)
    ELSE ElementEntries(xml, tag, type, i + 1)

TypeOf(tag) ==
    CASE tag = "ins" -> "insertion"
      [] tag = "del" -> "deletion"
      [] OTHER -> tag

\* The sequence of a returned result that holds a tag's entries.
EntriesFor(res, tag) ==
    CASE tag = "ins" -> res.insertions
      [] tag = "del" -> res.deletions
      [] tag = "moveFrom" -> res.moves.from
      [] tag = "moveTo" -> res.moves.to

Range(seq) == {seq[n] : n \in 1..Len(seq)}

Done(c) == pc[c] = "done"

\* The body extraction read for call c (a call that is done has read one).
BodyOf(c) == buf[c].files[DocumentPath]

HasSelfClosing(xml) ==
    \E i \in 1..Len(xml) : xml[i].k = "empty" /\ xml[i].tag \in ChangeTags

HasBareTag(xml) ==
    \E i \in 1..Len(xml) : xml[i].k = "open" /\ xml[i].tag \in ChangeTags /\ ~xml[i].sp

\* C1: every tracked-change element that holds text has an entry, whichever of
\* w:author, w:date, w:id its opening tag lacks (all three, and a tag with no
\* attribute at all, included), with "Unknown", "" and undefined for the
\* missing ones.  Stated for bodies without self-closing elements.
C1_DefaultsForMissingAttributes ==
    \A c \in Calls :
        Done(c) /\ ~HasSelfClosing(BodyOf(c)) =>
            \A tag \in ChangeTags :
                Range(ElementEntries(BodyOf(c), tag, TypeOf(tag), 1))
                    \subseteq Range(EntriesFor(result[c][1], tag))

\* C3: a package without word/document.xml, with or without
\* word/comments.xml, fails with the missing-document error, which no other
\* failure carries; nothing is returned and no scanner has run.
C3_MissingDocumentFails ==
    \A c \in Calls :
        /\ (/\ buf[c].valid
            /\ DocumentPath \notin DOMAIN buf[c].files
            /\ pc[c] \notin {"idle", "loadAsync"})
           => /\ pc[c] = "failed"
              /\ error[c] = MissingDocumentError
              /\ result[c] = <<>>
              /\ ~scanned[c]
        /\ (pc[c] = "failed" /\ error[c] = MissingDocumentError)
           => (buf[c].valid /\ DocumentPath \notin DOMAIN buf[c].files)

C3_Witness ==
    \E c \in Calls :
        /\ pc[c] = "failed"
        /\ buf[c].valid
        /\ DocumentPath \notin DOMAIN buf[c].files
        /\ CommentsPath \in DOMAIN buf[c].files
        /\ buf[c].files[CommentsPath] # <<>>

\* The comment definitions of a comments part, in the model every opening
\* <w:comment ...> tag with its closing tag.
CommentElements(xml) ==
    {i \in 1..Len(xml) : ElementAt(xml, "comment", i)}

\* C4: an element without text (no text element, empty ones only, or the
\* self-closing form) is in none of the four sequences: every entry has
\* text, and a tag none of whose elements holds text has no entry; every
\* comment definition gives one comment, with text "" when its body is empty.
C4_EmptyChangesDroppedCommentsKept ==
    \A c \in Calls :
        Done(c) =>
            /\ \A tag \in ChangeTags :
                /\ \A e \in Range(EntriesFor(result[c][1], tag)) : e.text # <<>>
                /\ ElementEntries(BodyOf(c), tag, TypeOf(tag), 1) = <<>>
                   => EntriesFor(result[c][1], tag) = <<>>
            /\ CommentsPath \in DOMAIN buf[c].files =>
                LET com == buf[c].files[CommentsPath]
                    at == CommentElements(com)
                IN  /\ Len(result[c][1].comments) = Cardinality(at)
                    /\ \A i \in at :
                         TextBetween(com, "t", i, ClosingOf(com, "comment", i)) = <<>>
                         => \E n \in 1..Len(result[c][1].comments) :
                              result[c][1].comments[n].text = <<>>

Infix(s, t) ==
    \E n \in 0..(Len(t) - Len(s)) : SubSeq(t, n + 1, n + Len(s)) = s

\* C6: a deletion element whose content is in <w:delText> elements has an
\* entry in deletions whose text is those contents joined, and no entry of
\* insertions holds deleted text.  Stated for bodies without self-closing
\* elements.
C6_DeletedTextOnlyInDeletions ==
    \A c \in Calls :
        Done(c) /\ ~HasSelfClosing(BodyOf(c)) =>
            LET xml == BodyOf(c)
            IN  /\ \A i \in 1..Len(xml) :
                     ElementAt(xml, "del", i) /\ ElementText(xml, "del", i) # <<>>
                     => \E e \in Range(result[c][1].deletions) :
                          e.text = ElementText(xml, "del", i)
                /\ \A i \in 1..Len(xml) :
                     xml[i].k = "text" /\ xml[i].tag = "delText" /\ xml[i].text # <<>>
                     => \A e \in Range(result[c][1].insertions) :
                          ~Infix(xml[i].text, e.text)

\* C10: in a body that mixes paired and self-closing elements of a tag, the
\* scanner returns one entry per paired element that holds text, left to
\* right, each with the attributes of its own opening tag and the text of its
\* own content; a self-closing element gives no entry and leaves the entries
\* of the elements after it as they are.  Stated for bodies in which every
\* opening tag carries white space after its name.
C10_OneEntryPerPairedElement ==
    \A c \in Calls :
        Done(c) /\ ~HasBareTag(BodyOf(c)) =>
            \A tag \in ChangeTags :
                EntriesFor(result[c][1], tag)
                    = ElementEntries(BodyOf(c), tag, TypeOf(tag), 1)

Numeric(id) ==
    id # <<>> /\ \A n \in 1..Len(id) : id[n] \in Digits

\* The 1-based positions of the range markers of a tag that carry the numeric
\* id.
MarkersOf(xml, tag, id) ==
    {i \in 1..Len(xml) :
        /\ xml[i].k = "empty"
        /\ xml[i].tag = tag
        /\ "id" \in DOMAIN xml[i].attrs
        /\ xml[i].attrs["id"] = id
        /\ Numeric(id)}

Min(S) == CHOOSE x \in S : \A y \in S : x <= y

Max(S) == CHOOSE x \in S : \A y \in S : x >= y

\* What a comment's commentedText is when the resolver uses the start marker
\* at s and the end marker at e of the sets given (<<>>: unset).
AnchoredBy(xml, ss, es, s, e) ==
    IF ss # {} /\ es # {} /\ e > s
    THEN <<TextBetween(xml, "t", s, e)>>
    ELSE <<>>

C7_NoCommentsPart ==
    \A c \in Calls :
        (/\ buf[c].valid
         /\ DocumentPath \in DOMAIN buf[c].files
         /\ CommentsPath \notin DOMAIN buf[c].files)
        => /\ pc[c] # "failed"
           /\ error[c] = ""
           /\ pc[c] \notin {"idle", "loadAsync", "documentText"}
              => /\ Done(c)
                 /\ result[c] # <<>>
                 /\ result[c][1].comments = <<>>

C7_Witness ==
    \E c \in Calls :
        /\ Done(c)
        /\ CommentsPath \notin DOMAIN buf[c].files
        /\ MarkersOf(BodyOf(c), "commentRangeStart", <<"1">>) # {}
        /\ MarkersOf(BodyOf(c), "commentRangeEnd", <<"1">>) # {}
        /\ result[c][1].comments = <<>>

\* C9 as stated: of several markers of one id the resolver uses the first
\* range-start and the last range-end.
C9_FirstStartLastEnd ==
    \A c \in Calls :
        Done(c) =>
            \A n \in 1..Len(result[c][1].comments) :
                LET com == result[c][1].comments[n]
                    ss == MarkersOf(BodyOf(c), "commentRangeStart", com.id)
                    es == MarkersOf(BodyOf(c), "commentRangeEnd", com.id)
                IN  com.commentedText
                        = IF ss # {} /\ es # {}
                          THEN AnchoredBy(BodyOf(c), ss, es, Min(ss), Max(es))
                          ELSE <<>>

\* C9 amended: of several markers of one id the resolver uses the last
\* range-start and the last range-end.
C9_LastStartLastEnd ==
    \A c \in Calls :
        Done(c) =>
            \A n \in 1..Len(result[c][1].comments) :
                LET com == result[c][1].comments[n]
                    ss == MarkersOf(BodyOf(c), "commentRangeStart", com.id)
                    es == MarkersOf(BodyOf(c), "commentRangeEnd", com.id)
                IN  com.commentedText
                        = IF ss # {} /\ es # {}
                          THEN AnchoredBy(BodyOf(c), ss, es, Max(ss), Max(es))
                          ELSE <<>>

\* Two range-starts of the comment's id with text between them, a range-end
\* after both, and the anchored text set.
C9_Witness ==
    \E c \in Calls :
        /\ Done(c)
        /\ \E n \in 1..Len(result[c][1].comments) :
             LET com == result[c][1].comments[n]
                 ss == MarkersOf(BodyOf(c), "commentRangeStart", com.id)
                 es == MarkersOf(BodyOf(c), "commentRangeEnd", com.id)
             IN  /\ Cardinality(ss) >= 2
                 /\ es # {}
                 /\ Max(es) > Max(ss)
                 /\ TextBetween(BodyOf(c), "t", Min(ss), Max(ss)) # <<>>
                 /\ com.commentedText # <<>>

\* ------------------------------------------------------ server properties

Responded(r) == hpc[r] = "responded"

StatusOf(r) == response[r][1].status

\* The shared-secret check fails: a key is configured and the request's key,
\* the header's if it has one and else the query's, is missing or another.
SecretCheckFails(r) ==
    /\ API_KEY # <<>>
    /\ (IF req[r].header # <<>> THEN req[r].header ELSE req[r].query) # API_KEY

WrongType(file) ==
    /\ file.mimetype # DocxMime
    /\ ~EndsWith(file.originalname, <<".", "d", "o", "c", "x">>)

\* C5: 401 for a failed shared-secret check, 400 for a request without a file,
\* 400 for a file of the wrong type, 500 for a failure of the extraction.
C5_StatusMapping ==
    \A r \in Calls :
        Responded(r) =>
            /\ SecretCheckFails(r) => StatusOf(r) = 401
            /\ ~SecretCheckFails(r) /\ req[r].file = <<>> => StatusOf(r) = 400
            /\ (/\ ~SecretCheckFails(r)
                /\ req[r].file # <<>>
                /\ WrongType(req[r].file[1]))
               => StatusOf(r) = 400
            /\ pc[r] = "failed" => StatusOf(r) = 500

====
